---- MODULE Spec2Model ----
(***************************************************************************)
(* Fleet management canister (src/dfinity_js_backend/src/index.ts).        *)
(* The source file holds two canister declarations: the first one          *)
(* (lines 175-438) and the second one (lines 610-995).  The variable       *)
(* `variant` says which of the two is deployed; it never changes.          *)
(* Text values are sequences of one-character strings, so that trim,       *)
(* parseFloat and key order are computed and not assumed.                  *)
(***************************************************************************)
EXTENDS Integers, Sequences, FiniteSets, TLC

\* ---------------------------------------------------------------- bounds
MaxIds == 3        \* how many identifiers uuidv4 hands out in one behaviour
MaxTime == 2       \* ic.time() runs from 1 to MaxTime

\* ------------------------------------------------------------------ text
Alphabet == <<" ", "-", ".", "0", "1", "2", "3", "4", "5", "6", "7", "8", "9", "a", "b", "u", "x">>
CharCode(c) == CHOOSE i \in 1..Len(Alphabet) : Alphabet[i] = c
DigitChars == <<"0", "1", "2", "3", "4", "5", "6", "7", "8", "9">>
IsDigit(c) == \E i \in 1..10 : DigitChars[i] = c
DigitVal(c) == (CHOOSE i \in 1..10 : DigitChars[i] = c) - 1
IsSpace(c) == c = " "

Empty == <<>>
Blank == <<" ">>
Blank2 == <<" ", " ">>
Truthy(s) == s # <<>>                 \* JS truthiness of a string

RECURSIVE TrimStart(_)
TrimStart(s) == IF s = <<>> THEN s
                ELSE IF IsSpace(Head(s)) THEN TrimStart(Tail(s)) ELSE s
RECURSIVE TrimEnd(_)
TrimEnd(s) == IF s = <<>> THEN s
              ELSE IF IsSpace(s[Len(s)]) THEN TrimEnd(SubSeq(s, 1, Len(s) - 1)) ELSE s
trim(s) == TrimEnd(TrimStart(s))

RECURSIVE TextLess(_, _)
TextLess(a, b) ==
  IF b = <<>> THEN FALSE
  ELSE IF a = <<>> THEN TRUE
  ELSE IF CharCode(Head(a)) # CharCode(Head(b)) THEN CharCode(Head(a)) < CharCode(Head(b))
  ELSE TextLess(Tail(a), Tail(b))

\* parseFloat: skip leading white space, optional sign, digits, optional
\* fraction; the longest such prefix is the number, none at all is NaN.
\* The value is (neg ? -1 : 1) * num / 10^scale.
RECURSIVE DigitPrefix(_)
DigitPrefix(s) == IF s = <<>> THEN <<>>
                  ELSE IF IsDigit(Head(s)) THEN <<Head(s)>> \o DigitPrefix(Tail(s)) ELSE <<>>
RECURSIVE DigitsValue(_)
DigitsValue(s) == IF s = <<>> THEN 0
                  ELSE 10 * DigitsValue(SubSeq(s, 1, Len(s) - 1)) + DigitVal(s[Len(s)])
NaN == [nan |-> TRUE, neg |-> FALSE, num |-> 0, scale |-> 0]
parseFloat(str) ==
  LET t == TrimStart(str)
      neg == t # <<>> /\ Head(t) = "-"
      u == IF neg THEN Tail(t) ELSE t
      ip == DigitPrefix(u)
      r == SubSeq(u, Len(ip) + 1, Len(u))
      fp == IF r # <<>> /\ Head(r) = "." THEN DigitPrefix(Tail(r)) ELSE <<>>
  IN IF ip = <<>> /\ fp = <<>> THEN NaN
     ELSE [nan |-> FALSE, neg |-> neg, num |-> DigitsValue(ip \o fp), scale |-> Len(fp)]
\* x <= 0 on JS numbers: every comparison with NaN is false, -0 <= 0 is true.
LeqZero(x) == ~x.nan /\ (x.neg \/ x.num = 0)

\* ------------------------------------------------------------ identifiers
UuidPool == { <<"u", DigitChars[n + 1]>> : n \in 1..MaxIds }
NoId == <<"-">>                        \* stands for "uuidv4 was not called"
IdInputs == UuidPool \cup {Empty, Blank, Blank2, <<"x">>}   \* arguments of the by-id calls
Principals == {"p1", "p2"}
Statuses == {"Available", "Booked", "Maintenance"}
Names == {Empty, <<"a">>}

VARIABLES
  variant,                     \* 1: first canister declaration, 2: second
  now,                         \* ic.time()
  driverStorage, vehicleStorage, bookingStorage, fuelConsumptionStorage,
  maintenanceStorage, emergencyAssistanceStorage, routeStorage,
  issued,                      \* history: id -> [store, rec] as returned by the create call
  deleted,                     \* history: ids whose delete call returned Success
  last                         \* the call just made and its reply: [op, arg, res]

stores == <<driverStorage, vehicleStorage, bookingStorage, fuelConsumptionStorage,
            maintenanceStorage, emergencyAssistanceStorage, routeStorage>>
vars == <<variant, now, driverStorage, vehicleStorage, bookingStorage,
          fuelConsumptionStorage, maintenanceStorage, emergencyAssistanceStorage,
          routeStorage, issued, deleted, last>>

\* ------------------------------------------------------- StableBTreeMap
EmptyMap == [k \in {} |-> 0]
\* forgets every other entry of the map
insertAlone(m, k, v) == [x \in {k} |-> v]
insert(m, k, v) == [x \in DOMAIN m \cup {k} |-> IF x = k THEN v ELSE m[x]]
remove(m, k) == [x \in DOMAIN m \ {k} |-> m[x]]
containsKey(m, k) == k \in DOMAIN m
First(S) == CHOOSE k \in S : \A j \in S \ {k} : TextLess(k, j)
RECURSIVE SortKeys(_)
SortKeys(S) == IF S = {} THEN <<>>
               ELSE <<First(S)>> \o SortKeys(S \ {First(S)})
values(m) == LET ks == SortKeys(DOMAIN m) IN [i \in 1..Len(ks) |-> m[ks[i]]]

\* --------------------------------------------------------------- results
Ok(v) == [tag |-> "Ok", val |-> v]
Err(kind) == [tag |-> "Err", kind |-> kind]
Success == [Success |-> TRUE]
IsErr(r, kind) == r.tag = "Err" /\ r.kind = kind

validateIdNoTrim(id) == Truthy(id)
validateId(id) == Truthy(id) /\ Len(trim(id)) > 0

\* uuidv4(): some identifier that was never handed out before
uuidv4Reuse == UuidPool
uuidv4 == UuidPool \ DOMAIN issued

\* a Variant value is an object with one property named after the tag
VariantOf(tag) == [t \in {tag} |-> "null"]
StatusValues == { VariantOf(t) : t \in Statuses }
Some(v) == [Some |-> v]
None == [None |-> "null"]
get(m, k) == IF containsKey(m, k) THEN Some(m[k]) ELSE None
IsNone(opt) == "None" \in DOMAIN opt

\* a === b on two Principal objects compares references; the object decoded
\* from storage and the one ic.caller() builds are never the same object
PrincipalStrictEq(a, b) == FALSE
\* status !== "Available" compares an object with a string primitive
StrictNotEqualObjectString(obj, str) == TRUE

\* ---------------------------------------------------------------- inputs
Times == {now - 1, now, now + 1}       \* nat64 inputs before, at and after ic.time()
\* ids named inside payloads: every id handed out so far, stored or deleted,
\* and one that was never handed out
RefInputs == DOMAIN issued \cup {<<"x">>}
DriverPayloads == [name : Names, license_number : Names, contact_info : Names]
VehiclePayloads == [registration_number : Names, model : Names, capacity : {0, 4}, location : Names]
BookingPayloads == [vehicle_id : RefInputs, driver_id : RefInputs, from_location : Names,
                    to_location : Names, start_time : Times, end_time : {0}]
Amounts == {<<"0">>, <<"5", ".", "5">>, <<"a", "b">>, <<"-", "1">>, <<"0", ".", "0">>}
FuelConsumptionPayloads == [vehicle_id : RefInputs, amount : Amounts, date : {0}]
MaintenancePayloads == [vehicle_id : RefInputs, description : Names, scheduled_date : Times]
EmergencyAssistancePayloads == [vehicle_id : RefInputs, description : Names, location : Names]
RoutePayloads == [from_location : Names, to_location : Names]

\* ---------------------------------------------------------------- drivers
createDriver(payload, caller, driverId) ==
  IF ~Truthy(payload.name) \/ ~Truthy(payload.license_number) \/ ~Truthy(payload.contact_info)
  THEN [res |-> Err("InvalidPayload"), store |-> driverStorage]
  ELSE LET driver == [id |-> driverId, owner |-> caller, name |-> payload.name,
                      license_number |-> payload.license_number,
                      contact_info |-> payload.contact_info, points |-> 0, created_at |-> now]
       IN [res |-> Ok(driver), store |-> insert(driverStorage, driverId, driver)]

getDriversEmptyOk ==
  Ok(values(driverStorage))
getDrivers ==
  LET drivers == values(driverStorage)
  IN IF Len(drivers) = 0 THEN Err("NotFound") ELSE Ok(drivers)

\* returns the first driver listed, whatever the key
getDriverByIdFirst(driverId) ==
  IF ~validateId(driverId) THEN Err("InvalidPayload")
  ELSE IF Len(values(driverStorage)) = 0 THEN Err("NotFound") ELSE Ok(values(driverStorage)[1])
getDriverById(driverId) ==
  IF ~validateId(driverId) THEN Err("InvalidPayload")
  ELSE LET driverOpt == get(driverStorage, driverId)
       IN IF IsNone(driverOpt) THEN Err("NotFound") ELSE Ok(driverOpt.Some)

getDriverById2(driverId) ==
  LET driverOpt == get(driverStorage, driverId)
  IN IF IsNone(driverOpt) THEN Err("NotFound") ELSE Ok(driverOpt.Some)

getDriverByPrincipal(caller) ==
  LET driverOpt == SelectSeq(values(driverStorage), LAMBDA driver : PrincipalStrictEq(driver.owner, caller))
  IN IF Len(driverOpt) = 0 THEN Err("NotFound") ELSE Ok(driverOpt[1])

deleteDriver(driverId) ==
  IF ~validateId(driverId) THEN [res |-> Err("InvalidPayload"), store |-> driverStorage]
  ELSE IF IsNone(get(driverStorage, driverId)) THEN [res |-> Err("NotFound"), store |-> driverStorage]
  ELSE [res |-> Ok(Success), store |-> remove(driverStorage, driverId)]

getDriverByLicenseNumber(licenseNumber) ==
  LET driverOpt == SelectSeq(values(driverStorage), LAMBDA driver : driver.license_number = licenseNumber)
  IN IF Len(driverOpt) = 0 THEN Err("NotFound") ELSE Ok(driverOpt[1])

\* --------------------------------------------------------------- vehicles
createVehicle(payload, vehicleId) ==
  IF ~Truthy(payload.registration_number) \/ ~Truthy(payload.model) \/ payload.capacity <= 0
     \/ ~Truthy(payload.location)
  THEN [res |-> Err("InvalidPayload"), store |-> vehicleStorage]
  ELSE LET vehicle == [id |-> vehicleId, registration_number |-> payload.registration_number,
                       model |-> payload.model, capacity |-> payload.capacity,
                       status |-> VariantOf("Available"), location |-> payload.location,
                       created_at |-> now]
       IN [res |-> Ok(vehicle), store |-> insert(vehicleStorage, vehicleId, vehicle)]

\* second declaration: !payload.capacity, false exactly for 0n
createVehicle2(payload, vehicleId) ==
  IF ~Truthy(payload.registration_number) \/ ~Truthy(payload.model) \/ payload.capacity = 0
     \/ ~Truthy(payload.location)
  THEN [res |-> Err("InvalidPayload"), store |-> vehicleStorage]
  ELSE LET vehicle == [id |-> vehicleId, registration_number |-> payload.registration_number,
                       model |-> payload.model, capacity |-> payload.capacity,
                       status |-> VariantOf("Available"), location |-> payload.location,
                       created_at |-> now]
       IN [res |-> Ok(vehicle), store |-> insert(vehicleStorage, vehicleId, vehicle)]

getVehicleById(vehicleId) ==
  IF ~validateId(vehicleId) THEN Err("InvalidPayload")
  ELSE LET vehicleOpt == get(vehicleStorage, vehicleId)
       IN IF IsNone(vehicleOpt) THEN Err("NotFound") ELSE Ok(vehicleOpt.Some)

getVehicleById2(vehicleId) ==
  LET vehicleOpt == get(vehicleStorage, vehicleId)
  IN IF IsNone(vehicleOpt) THEN Err("NotFound") ELSE Ok(vehicleOpt.Some)

getVehicleByRegistrationNumber(registrationNumber) ==
  LET vehicleOpt == SelectSeq(values(vehicleStorage),
                              LAMBDA vehicle : vehicle.registration_number = registrationNumber)
  IN IF Len(vehicleOpt) = 0 THEN Err("NotFound") ELSE Ok(vehicleOpt[1])

getVehicleByModel(model) ==
  LET vehicleOpt == SelectSeq(values(vehicleStorage), LAMBDA vehicle : vehicle.model = model)
  IN IF Len(vehicleOpt) = 0 THEN Err("NotFound") ELSE Ok(vehicleOpt)

getVehicles ==
  LET vehicles == values(vehicleStorage)
  IN IF Len(vehicles) = 0 THEN Err("NotFound") ELSE Ok(vehicles)

deleteVehicle(vehicleId) ==
  IF ~validateId(vehicleId) THEN [res |-> Err("InvalidPayload"), store |-> vehicleStorage]
  ELSE IF IsNone(get(vehicleStorage, vehicleId)) THEN [res |-> Err("NotFound"), store |-> vehicleStorage]
  ELSE [res |-> Ok(Success), store |-> remove(vehicleStorage, vehicleId)]

\* writes the record back without the new status
updateVehicleStatusStale(vehicleId, status) ==
  IF ~validateId(vehicleId) THEN [res |-> Err("InvalidPayload"), store |-> vehicleStorage]
  ELSE IF IsNone(get(vehicleStorage, vehicleId)) THEN [res |-> Err("NotFound"), store |-> vehicleStorage]
  ELSE [res |-> Ok(Success), store |-> insert(vehicleStorage, vehicleId, vehicleStorage[vehicleId])]
updateVehicleStatus(vehicleId, status) ==
  IF ~validateId(vehicleId) THEN [res |-> Err("InvalidPayload"), store |-> vehicleStorage]
  ELSE LET vehicleOpt == get(vehicleStorage, vehicleId)
       IN IF IsNone(vehicleOpt) THEN [res |-> Err("NotFound"), store |-> vehicleStorage]
          ELSE LET vehicle == [vehicleOpt.Some EXCEPT !.status = status]
               IN [res |-> Ok(Success), store |-> insert(vehicleStorage, vehicleId, vehicle)]

\* --------------------------------------------------------------- bookings
BookingFieldsInvalidLax(payload) ==
  ~Truthy(payload.from_location) \/ ~Truthy(payload.to_location) \/ payload.start_time < now
BookingFieldsInvalid(payload) ==
  ~Truthy(payload.from_location) \/ ~Truthy(payload.to_location) \/ payload.start_time <= now

\* the payload's vehicle_id lands in the id field
NewBookingVehicleId(payload, bookingId) ==
  [id |-> payload.vehicle_id, vehicle_id |-> payload.vehicle_id, driver_id |-> payload.driver_id,
   from_location |-> payload.from_location, to_location |-> payload.to_location,
   start_time |-> payload.start_time, end_time |-> payload.end_time,
   status |-> "pending", created_at |-> now]
NewBooking(payload, bookingId) ==
  [id |-> bookingId, vehicle_id |-> payload.vehicle_id, driver_id |-> payload.driver_id,
   from_location |-> payload.from_location, to_location |-> payload.to_location,
   start_time |-> payload.start_time, end_time |-> payload.end_time,
   status |-> "pending", created_at |-> now]

\* vehicleOpt[0].status.Available === undefined
NotAvailableNever(status) == FALSE
NotAvailable(status) == "Available" \notin DOMAIN status

\* looks both referenced records up before it tests the vehicle's status
createBookingLookupsFirst(payload, bookingId) ==
  IF BookingFieldsInvalid(payload) THEN [res |-> Err("InvalidPayload"), store |-> bookingStorage]
  ELSE LET vehicleOpt == SelectSeq(values(vehicleStorage), LAMBDA vehicle : vehicle.id = payload.vehicle_id)
           driverOpt == SelectSeq(values(driverStorage), LAMBDA driver : driver.id = payload.driver_id)
       IN IF Len(vehicleOpt) = 0 \/ Len(driverOpt) = 0
          THEN [res |-> Err("NotFound"), store |-> bookingStorage]
          ELSE IF NotAvailable(vehicleOpt[1].status) THEN [res |-> Err("Error"), store |-> bookingStorage]
          ELSE LET booking == NewBooking(payload, bookingId)
               IN [res |-> Ok(booking), store |-> insert(bookingStorage, bookingId, booking)]
createBooking(payload, bookingId) ==
  IF BookingFieldsInvalid(payload) THEN [res |-> Err("InvalidPayload"), store |-> bookingStorage]
  ELSE LET vehicleOpt == SelectSeq(values(vehicleStorage), LAMBDA vehicle : vehicle.id = payload.vehicle_id)
           driverOpt == SelectSeq(values(driverStorage), LAMBDA driver : driver.id = payload.driver_id)
       IN IF Len(vehicleOpt) = 0 THEN [res |-> Err("NotFound"), store |-> bookingStorage]
          ELSE IF NotAvailable(vehicleOpt[1].status) THEN [res |-> Err("Error"), store |-> bookingStorage]
          ELSE IF Len(driverOpt) = 0 THEN [res |-> Err("NotFound"), store |-> bookingStorage]
          ELSE LET booking == NewBooking(payload, bookingId)
               IN [res |-> Ok(booking), store |-> insert(bookingStorage, bookingId, booking)]

\* second declaration: vehicleOpt[0].status !== "Available"
createBooking2(payload, bookingId) ==
  IF BookingFieldsInvalid(payload) THEN [res |-> Err("InvalidPayload"), store |-> bookingStorage]
  ELSE LET vehicleOpt == SelectSeq(values(vehicleStorage), LAMBDA vehicle : vehicle.id = payload.vehicle_id)
           driverOpt == SelectSeq(values(driverStorage), LAMBDA driver : driver.id = payload.driver_id)
       IN IF Len(vehicleOpt) = 0 THEN [res |-> Err("NotFound"), store |-> bookingStorage]
          ELSE IF StrictNotEqualObjectString(vehicleOpt[1].status, "Available")
               THEN [res |-> Err("Error"), store |-> bookingStorage]
          ELSE IF Len(driverOpt) = 0 THEN [res |-> Err("NotFound"), store |-> bookingStorage]
          ELSE LET booking == NewBooking(payload, bookingId)
               IN [res |-> Ok(booking), store |-> insert(bookingStorage, bookingId, booking)]

getBookings ==
  LET bookings == values(bookingStorage)
  IN IF Len(bookings) = 0 THEN Err("NotFound") ELSE Ok(bookings)

getBookingById(bookingId) ==
  LET bookingOpt == get(bookingStorage, bookingId)
  IN IF IsNone(bookingOpt) THEN Err("NotFound") ELSE Ok(bookingOpt.Some)

\* answers only for a vehicle that is still stored
getBookingByVehicleIdStored(vehicleId) ==
  LET bookings == SelectSeq(values(bookingStorage), LAMBDA booking : booking.vehicle_id = vehicleId)
  IN IF ~containsKey(vehicleStorage, vehicleId) \/ Len(bookings) = 0 THEN Err("NotFound")
     ELSE Ok(bookings)
getBookingByVehicleId(vehicleId) ==
  LET bookings == SelectSeq(values(bookingStorage), LAMBDA booking : booking.vehicle_id = vehicleId)
  IN IF Len(bookings) = 0 THEN Err("NotFound") ELSE Ok(bookings)

getBookingByDriverId(driverId) ==
  LET bookings == SelectSeq(values(bookingStorage), LAMBDA booking : booking.driver_id = driverId)
  IN IF Len(bookings) = 0 THEN Err("NotFound") ELSE Ok(bookings)

\* ------------------------------------------------------- fuel consumption
NewFuelConsumption(payload, consumptionId) ==
  [id |-> consumptionId, vehicle_id |-> payload.vehicle_id, amount |-> payload.amount,
   date |-> payload.date]

recordFuelConsumption(payload, consumptionId) ==
  IF LeqZero(parseFloat(payload.amount))
  THEN [res |-> Err("InvalidPayload"), store |-> fuelConsumptionStorage]
  ELSE IF IsNone(get(vehicleStorage, payload.vehicle_id))
  THEN [res |-> Err("NotFound"), store |-> fuelConsumptionStorage]
  ELSE LET fuelConsumption == NewFuelConsumption(payload, consumptionId)
       IN [res |-> Ok(fuelConsumption),
           store |-> insert(fuelConsumptionStorage, consumptionId, fuelConsumption)]

recordFuelConsumption2(payload, consumptionId) ==
  IF LeqZero(parseFloat(payload.amount))
  THEN [res |-> Err("InvalidPayload"), store |-> fuelConsumptionStorage]
  ELSE IF Len(SelectSeq(values(vehicleStorage), LAMBDA vehicle : vehicle.id = payload.vehicle_id)) = 0
  THEN [res |-> Err("NotFound"), store |-> fuelConsumptionStorage]
  ELSE LET fuelConsumption == NewFuelConsumption(payload, consumptionId)
       IN [res |-> Ok(fuelConsumption),
           store |-> insert(fuelConsumptionStorage, consumptionId, fuelConsumption)]

getFuelConsumptions ==
  LET records == values(fuelConsumptionStorage)
  IN IF Len(records) = 0 THEN Err("NotFound") ELSE Ok(records)

\* ------------------------------------------------------------ maintenance
NewMaintenance(payload, maintenanceId) ==
  [id |-> maintenanceId, vehicle_id |-> payload.vehicle_id, description |-> payload.description,
   scheduled_date |-> payload.scheduled_date, status |-> "pending", created_at |-> now]

\* inserts before it looks the vehicle up
scheduleMaintenanceEager(payload, maintenanceId) ==
  IF ~Truthy(payload.description) \/ payload.scheduled_date <= now
  THEN [res |-> Err("InvalidPayload"), store |-> maintenanceStorage]
  ELSE [res |-> IF IsNone(get(vehicleStorage, payload.vehicle_id)) THEN Err("NotFound")
                ELSE Ok(NewMaintenance(payload, maintenanceId)),
        store |-> insert(maintenanceStorage, maintenanceId, NewMaintenance(payload, maintenanceId))]
scheduleMaintenance(payload, maintenanceId) ==
  IF ~Truthy(payload.description) \/ payload.scheduled_date <= now
  THEN [res |-> Err("InvalidPayload"), store |-> maintenanceStorage]
  ELSE IF IsNone(get(vehicleStorage, payload.vehicle_id))
  THEN [res |-> Err("NotFound"), store |-> maintenanceStorage]
  ELSE LET maintenance == NewMaintenance(payload, maintenanceId)
       IN [res |-> Ok(maintenance), store |-> insert(maintenanceStorage, maintenanceId, maintenance)]

scheduleMaintenance2(payload, maintenanceId) ==
  IF ~Truthy(payload.description) \/ payload.scheduled_date <= now
  THEN [res |-> Err("InvalidPayload"), store |-> maintenanceStorage]
  ELSE IF Len(SelectSeq(values(vehicleStorage), LAMBDA vehicle : vehicle.id = payload.vehicle_id)) = 0
  THEN [res |-> Err("NotFound"), store |-> maintenanceStorage]
  ELSE LET maintenance == NewMaintenance(payload, maintenanceId)
       IN [res |-> Ok(maintenance), store |-> insert(maintenanceStorage, maintenanceId, maintenance)]

getMaintenances ==
  LET records == values(maintenanceStorage)
  IN IF Len(records) = 0 THEN Err("NotFound") ELSE Ok(records)

\* --------------------------------------------------- emergency assistance
NewEmergencyAssistance(payload, assistanceId) ==
  [id |-> assistanceId, vehicle_id |-> payload.vehicle_id, description |-> payload.description,
   location |-> payload.location, status |-> "pending", created_at |-> now]

requestEmergencyAssistance(payload, assistanceId) ==
  IF ~Truthy(payload.description) \/ ~Truthy(payload.location)
  THEN [res |-> Err("InvalidPayload"), store |-> emergencyAssistanceStorage]
  ELSE IF IsNone(get(vehicleStorage, payload.vehicle_id))
  THEN [res |-> Err("NotFound"), store |-> emergencyAssistanceStorage]
  ELSE LET emergencyAssistance == NewEmergencyAssistance(payload, assistanceId)
       IN [res |-> Ok(emergencyAssistance),
           store |-> insert(emergencyAssistanceStorage, assistanceId, emergencyAssistance)]

requestEmergencyAssistance2(payload, assistanceId) ==
  IF ~Truthy(payload.description) \/ ~Truthy(payload.location)
  THEN [res |-> Err("InvalidPayload"), store |-> emergencyAssistanceStorage]
  ELSE IF Len(SelectSeq(values(vehicleStorage), LAMBDA vehicle : vehicle.id = payload.vehicle_id)) = 0
  THEN [res |-> Err("NotFound"), store |-> emergencyAssistanceStorage]
  ELSE LET emergencyAssistance == NewEmergencyAssistance(payload, assistanceId)
       IN [res |-> Ok(emergencyAssistance),
           store |-> insert(emergencyAssistanceStorage, assistanceId, emergencyAssistance)]

getEmergencyAssistances ==
  LET records == values(emergencyAssistanceStorage)
  IN IF Len(records) = 0 THEN Err("NotFound") ELSE Ok(records)

\* ----------------------------------------------------------------- routes
createRoute(payload, routeId) ==
  IF ~Truthy(payload.from_location) \/ ~Truthy(payload.to_location)
  THEN [res |-> Err("InvalidPayload"), store |-> routeStorage]
  ELSE LET route == [id |-> routeId, from_location |-> payload.from_location,
                     to_location |-> payload.to_location,
                     optimized_route |-> <<"Optimized route from ">> \o payload.from_location
                                           \o <<" to ">> \o payload.to_location,
                     distance |-> "100km", time_estimate |-> 3600]
       IN [res |-> Ok(route), store |-> insert(routeStorage, routeId, route)]

getRoutes ==
  LET routes == values(routeStorage)
  IN IF Len(routes) = 0 THEN Err("NotFound") ELSE Ok(routes)

getRouteById(routeId) ==
  LET routeOpt == get(routeStorage, routeId)
  IN IF IsNone(routeOpt) THEN Err("NotFound") ELSE Ok(routeOpt.Some)

\* ---------------------------------------------------------------- actions
Call(op, arg, res) == [op |-> op, arg |-> arg, res |-> res]
NoCall == [op |-> "none"]
Idle == last.op = "none"              \* no reply is waiting to be read
Issue(out, id, kind) ==
  IF out.res.tag = "Ok" THEN insert(issued, id, [store |-> kind, rec |-> out.res.val]) ELSE issued

Init ==
  /\ variant \in {1, 2}
  /\ now = 1
  /\ driverStorage = EmptyMap /\ vehicleStorage = EmptyMap /\ bookingStorage = EmptyMap
  /\ fuelConsumptionStorage = EmptyMap /\ maintenanceStorage = EmptyMap
  /\ emergencyAssistanceStorage = EmptyMap /\ routeStorage = EmptyMap
  /\ issued = EmptyMap
  /\ deleted = {}
  /\ last = NoCall

\* time passes between calls; ic.time() is constant during one call
Tick ==
  /\ now < MaxTime
  /\ now' = now + 1
  /\ Idle
  /\ UNCHANGED <<last, variant, driverStorage, vehicleStorage, bookingStorage, fuelConsumptionStorage, maintenanceStorage, emergencyAssistanceStorage, routeStorage, issued, deleted>>

CreateDriver ==
  /\ Idle
  /\ \E id \in uuidv4 \cup {NoId}, payload \in DriverPayloads, caller \in Principals :
       LET out == createDriver(payload, caller, id) IN
       /\ (id = NoId) <=> (out.res.tag = "Err")
       /\ driverStorage' = out.store
       /\ issued' = Issue(out, id, "driver")
       /\ last' = Call("createDriver", [payload |-> payload, caller |-> caller], out.res)
       /\ UNCHANGED <<variant, now, vehicleStorage, bookingStorage, fuelConsumptionStorage, maintenanceStorage, emergencyAssistanceStorage, routeStorage, deleted>>

GetDrivers ==
  /\ Idle
  /\ last' = Call("getDrivers", "none", getDrivers)
  /\ UNCHANGED <<variant, now, driverStorage, vehicleStorage, bookingStorage, fuelConsumptionStorage, maintenanceStorage, emergencyAssistanceStorage, routeStorage, issued, deleted>>

GetDriverById ==
  /\ Idle
  /\ variant = 1
  /\ \E driverId \in IdInputs :
       /\ last' = Call("getDriverById", driverId, getDriverById(driverId))
       /\ UNCHANGED <<variant, now, driverStorage, vehicleStorage, bookingStorage, fuelConsumptionStorage, maintenanceStorage, emergencyAssistanceStorage, routeStorage, issued, deleted>>

GetDriverById2 ==
  /\ Idle
  /\ variant = 2
  /\ \E driverId \in IdInputs :
       /\ last' = Call("getDriverById", driverId, getDriverById2(driverId))
       /\ UNCHANGED <<variant, now, driverStorage, vehicleStorage, bookingStorage, fuelConsumptionStorage, maintenanceStorage, emergencyAssistanceStorage, routeStorage, issued, deleted>>

GetDriverByPrincipal ==
  /\ Idle
  /\ \E caller \in Principals :
       /\ TRUE
       /\ last' = Call("getDriverByPrincipal", caller, getDriverByPrincipal(caller))
       /\ UNCHANGED <<variant, now, driverStorage, vehicleStorage, bookingStorage, fuelConsumptionStorage, maintenanceStorage, emergencyAssistanceStorage, routeStorage, issued, deleted>>

DeleteDriver ==
  /\ Idle
  /\ variant = 1
  /\ \E driverId \in IdInputs :
       LET out == deleteDriver(driverId) IN
       /\ driverStorage' = out.store
       /\ deleted' = IF out.res.tag = "Ok" THEN deleted \cup {driverId} ELSE deleted
       /\ last' = Call("deleteDriver", driverId, out.res)
       /\ UNCHANGED <<variant, now, vehicleStorage, bookingStorage, fuelConsumptionStorage, maintenanceStorage, emergencyAssistanceStorage, routeStorage, issued>>

GetDriverByLicenseNumber ==
  /\ Idle
  /\ variant = 1
  /\ \E licenseNumber \in Names :
       /\ last' = Call("getDriverByLicenseNumber", licenseNumber, getDriverByLicenseNumber(licenseNumber))
       /\ UNCHANGED <<variant, now, driverStorage, vehicleStorage, bookingStorage, fuelConsumptionStorage, maintenanceStorage, emergencyAssistanceStorage, routeStorage, issued, deleted>>

CreateVehicle ==
  /\ Idle
  /\ variant = 1
  /\ \E id \in uuidv4 \cup {NoId}, payload \in VehiclePayloads :
       LET out == createVehicle(payload, id) IN
       /\ (id = NoId) <=> (out.res.tag = "Err")
       /\ vehicleStorage' = out.store
       /\ issued' = Issue(out, id, "vehicle")
       /\ last' = Call("createVehicle", payload, out.res)
       /\ UNCHANGED <<variant, now, driverStorage, bookingStorage, fuelConsumptionStorage, maintenanceStorage, emergencyAssistanceStorage, routeStorage, deleted>>

CreateVehicle2 ==
  /\ Idle
  /\ variant = 2
  /\ \E id \in uuidv4 \cup {NoId}, payload \in VehiclePayloads :
       LET out == createVehicle2(payload, id) IN
       /\ (id = NoId) <=> (out.res.tag = "Err")
       /\ vehicleStorage' = out.store
       /\ issued' = Issue(out, id, "vehicle")
       /\ last' = Call("createVehicle", payload, out.res)
       /\ UNCHANGED <<variant, now, driverStorage, bookingStorage, fuelConsumptionStorage, maintenanceStorage, emergencyAssistanceStorage, routeStorage, deleted>>

GetVehicleById ==
  /\ Idle
  /\ variant = 1
  /\ \E vehicleId \in IdInputs :
       /\ last' = Call("getVehicleById", vehicleId, getVehicleById(vehicleId))
       /\ UNCHANGED <<variant, now, driverStorage, vehicleStorage, bookingStorage, fuelConsumptionStorage, maintenanceStorage, emergencyAssistanceStorage, routeStorage, issued, deleted>>

GetVehicleById2 ==
  /\ Idle
  /\ variant = 2
  /\ \E vehicleId \in IdInputs :
       /\ last' = Call("getVehicleById", vehicleId, getVehicleById2(vehicleId))
       /\ UNCHANGED <<variant, now, driverStorage, vehicleStorage, bookingStorage, fuelConsumptionStorage, maintenanceStorage, emergencyAssistanceStorage, routeStorage, issued, deleted>>

GetVehicleByRegistrationNumber ==
  /\ Idle
  /\ \E registrationNumber \in Names :
       /\ TRUE
       /\ last' = Call("getVehicleByRegistrationNumber", registrationNumber, getVehicleByRegistrationNumber(registrationNumber))
       /\ UNCHANGED <<variant, now, driverStorage, vehicleStorage, bookingStorage, fuelConsumptionStorage, maintenanceStorage, emergencyAssistanceStorage, routeStorage, issued, deleted>>

GetVehicleByModel ==
  /\ Idle
  /\ variant = 2
  /\ \E model \in Names :
       /\ last' = Call("getVehicleByModel", model, getVehicleByModel(model))
       /\ UNCHANGED <<variant, now, driverStorage, vehicleStorage, bookingStorage, fuelConsumptionStorage, maintenanceStorage, emergencyAssistanceStorage, routeStorage, issued, deleted>>

GetVehicles ==
  /\ variant = 2
  /\ Idle
  /\ last' = Call("getVehicles", "none", getVehicles)
  /\ UNCHANGED <<variant, now, driverStorage, vehicleStorage, bookingStorage, fuelConsumptionStorage, maintenanceStorage, emergencyAssistanceStorage, routeStorage, issued, deleted>>

DeleteVehicle ==
  /\ Idle
  /\ variant = 1
  /\ \E vehicleId \in IdInputs :
       LET out == deleteVehicle(vehicleId) IN
       /\ vehicleStorage' = out.store
       /\ deleted' = IF out.res.tag = "Ok" THEN deleted \cup {vehicleId} ELSE deleted
       /\ last' = Call("deleteVehicle", vehicleId, out.res)
       /\ UNCHANGED <<variant, now, driverStorage, bookingStorage, fuelConsumptionStorage, maintenanceStorage, emergencyAssistanceStorage, routeStorage, issued>>

UpdateVehicleStatus ==
  /\ Idle
  /\ variant = 1
  /\ \E vehicleId \in IdInputs, status \in StatusValues :
       LET out == updateVehicleStatus(vehicleId, status) IN
       /\ vehicleStorage' = out.store
       /\ last' = Call("updateVehicleStatus", [id |-> vehicleId, status |-> status], out.res)
       /\ UNCHANGED <<variant, now, driverStorage, bookingStorage, fuelConsumptionStorage, maintenanceStorage, emergencyAssistanceStorage, routeStorage, issued, deleted>>

CreateBooking ==
  /\ Idle
  /\ variant = 1
  /\ \E id \in uuidv4 \cup {NoId}, payload \in BookingPayloads :
       LET out == createBooking(payload, id) IN
       /\ (id = NoId) <=> (out.res.tag = "Err")
       /\ bookingStorage' = out.store
       /\ issued' = Issue(out, id, "booking")
       /\ last' = Call("createBooking", payload, out.res)
       /\ UNCHANGED <<variant, now, driverStorage, vehicleStorage, fuelConsumptionStorage, maintenanceStorage, emergencyAssistanceStorage, routeStorage, deleted>>

CreateBooking2 ==
  /\ Idle
  /\ variant = 2
  /\ \E id \in uuidv4 \cup {NoId}, payload \in BookingPayloads :
       LET out == createBooking2(payload, id) IN
       /\ (id = NoId) <=> (out.res.tag = "Err")
       /\ bookingStorage' = out.store
       /\ issued' = Issue(out, id, "booking")
       /\ last' = Call("createBooking", payload, out.res)
       /\ UNCHANGED <<variant, now, driverStorage, vehicleStorage, fuelConsumptionStorage, maintenanceStorage, emergencyAssistanceStorage, routeStorage, deleted>>

GetBookings ==
  /\ Idle
  /\ last' = Call("getBookings", "none", getBookings)
  /\ UNCHANGED <<variant, now, driverStorage, vehicleStorage, bookingStorage, fuelConsumptionStorage, maintenanceStorage, emergencyAssistanceStorage, routeStorage, issued, deleted>>

GetBookingById ==
  /\ Idle
  /\ variant = 2
  /\ \E bookingId \in IdInputs :
       /\ last' = Call("getBookingById", bookingId, getBookingById(bookingId))
       /\ UNCHANGED <<variant, now, driverStorage, vehicleStorage, bookingStorage, fuelConsumptionStorage, maintenanceStorage, emergencyAssistanceStorage, routeStorage, issued, deleted>>

GetBookingByVehicleId ==
  /\ Idle
  /\ \E vehicleId \in IdInputs :
       /\ TRUE
       /\ last' = Call("getBookingByVehicleId", vehicleId, getBookingByVehicleId(vehicleId))
       /\ UNCHANGED <<variant, now, driverStorage, vehicleStorage, bookingStorage, fuelConsumptionStorage, maintenanceStorage, emergencyAssistanceStorage, routeStorage, issued, deleted>>

GetBookingByDriverId ==
  /\ Idle
  /\ variant = 2
  /\ \E driverId \in IdInputs :
       /\ last' = Call("getBookingByDriverId", driverId, getBookingByDriverId(driverId))
       /\ UNCHANGED <<variant, now, driverStorage, vehicleStorage, bookingStorage, fuelConsumptionStorage, maintenanceStorage, emergencyAssistanceStorage, routeStorage, issued, deleted>>

RecordFuelConsumption ==
  /\ Idle
  /\ variant = 1
  /\ \E id \in uuidv4 \cup {NoId}, payload \in FuelConsumptionPayloads :
       LET out == recordFuelConsumption(payload, id) IN
       /\ (id = NoId) <=> (out.res.tag = "Err")
       /\ fuelConsumptionStorage' = out.store
       /\ issued' = Issue(out, id, "fuel")
       /\ last' = Call("recordFuelConsumption", payload, out.res)
       /\ UNCHANGED <<variant, now, driverStorage, vehicleStorage, bookingStorage, maintenanceStorage, emergencyAssistanceStorage, routeStorage, deleted>>

RecordFuelConsumption2 ==
  /\ Idle
  /\ variant = 2
  /\ \E id \in uuidv4 \cup {NoId}, payload \in FuelConsumptionPayloads :
       LET out == recordFuelConsumption2(payload, id) IN
       /\ (id = NoId) <=> (out.res.tag = "Err")
       /\ fuelConsumptionStorage' = out.store
       /\ issued' = Issue(out, id, "fuel")
       /\ last' = Call("recordFuelConsumption", payload, out.res)
       /\ UNCHANGED <<variant, now, driverStorage, vehicleStorage, bookingStorage, maintenanceStorage, emergencyAssistanceStorage, routeStorage, deleted>>

GetFuelConsumptions ==
  /\ variant = 2
  /\ Idle
  /\ last' = Call("getFuelConsumptions", "none", getFuelConsumptions)
  /\ UNCHANGED <<variant, now, driverStorage, vehicleStorage, bookingStorage, fuelConsumptionStorage, maintenanceStorage, emergencyAssistanceStorage, routeStorage, issued, deleted>>

ScheduleMaintenance ==
  /\ Idle
  /\ variant = 1
  /\ \E id \in uuidv4 \cup {NoId}, payload \in MaintenancePayloads :
       LET out == scheduleMaintenance(payload, id) IN
       /\ (id = NoId) <=> (out.res.tag = "Err")
       /\ maintenanceStorage' = out.store
       /\ issued' = Issue(out, id, "maintenance")
       /\ last' = Call("scheduleMaintenance", payload, out.res)
       /\ UNCHANGED <<variant, now, driverStorage, vehicleStorage, bookingStorage, fuelConsumptionStorage, emergencyAssistanceStorage, routeStorage, deleted>>

ScheduleMaintenance2 ==
  /\ Idle
  /\ variant = 2
  /\ \E id \in uuidv4 \cup {NoId}, payload \in MaintenancePayloads :
       LET out == scheduleMaintenance2(payload, id) IN
       /\ (id = NoId) <=> (out.res.tag = "Err")
       /\ maintenanceStorage' = out.store
       /\ issued' = Issue(out, id, "maintenance")
       /\ last' = Call("scheduleMaintenance", payload, out.res)
       /\ UNCHANGED <<variant, now, driverStorage, vehicleStorage, bookingStorage, fuelConsumptionStorage, emergencyAssistanceStorage, routeStorage, deleted>>

GetMaintenances ==
  /\ variant = 2
  /\ Idle
  /\ last' = Call("getMaintenances", "none", getMaintenances)
  /\ UNCHANGED <<variant, now, driverStorage, vehicleStorage, bookingStorage, fuelConsumptionStorage, maintenanceStorage, emergencyAssistanceStorage, routeStorage, issued, deleted>>

RequestEmergencyAssistance ==
  /\ Idle
  /\ variant = 1
  /\ \E id \in uuidv4 \cup {NoId}, payload \in EmergencyAssistancePayloads :
       LET out == requestEmergencyAssistance(payload, id) IN
       /\ (id = NoId) <=> (out.res.tag = "Err")
       /\ emergencyAssistanceStorage' = out.store
       /\ issued' = Issue(out, id, "emergency")
       /\ last' = Call("requestEmergencyAssistance", payload, out.res)
       /\ UNCHANGED <<variant, now, driverStorage, vehicleStorage, bookingStorage, fuelConsumptionStorage, maintenanceStorage, routeStorage, deleted>>

RequestEmergencyAssistance2 ==
  /\ Idle
  /\ variant = 2
  /\ \E id \in uuidv4 \cup {NoId}, payload \in EmergencyAssistancePayloads :
       LET out == requestEmergencyAssistance2(payload, id) IN
       /\ (id = NoId) <=> (out.res.tag = "Err")
       /\ emergencyAssistanceStorage' = out.store
       /\ issued' = Issue(out, id, "emergency")
       /\ last' = Call("requestEmergencyAssistance", payload, out.res)
       /\ UNCHANGED <<variant, now, driverStorage, vehicleStorage, bookingStorage, fuelConsumptionStorage, maintenanceStorage, routeStorage, deleted>>

GetEmergencyAssistances ==
  /\ Idle
  /\ last' = Call("getEmergencyAssistances", "none", getEmergencyAssistances)
  /\ UNCHANGED <<variant, now, driverStorage, vehicleStorage, bookingStorage, fuelConsumptionStorage, maintenanceStorage, emergencyAssistanceStorage, routeStorage, issued, deleted>>

CreateRoute ==
  /\ Idle
  /\ \E id \in uuidv4 \cup {NoId}, payload \in RoutePayloads :
       LET out == createRoute(payload, id) IN
       /\ (id = NoId) <=> (out.res.tag = "Err")
       /\ routeStorage' = out.store
       /\ issued' = Issue(out, id, "route")
       /\ last' = Call("createRoute", payload, out.res)
       /\ UNCHANGED <<variant, now, driverStorage, vehicleStorage, bookingStorage, fuelConsumptionStorage, maintenanceStorage, emergencyAssistanceStorage, deleted>>

GetRoutes ==
  /\ Idle
  /\ last' = Call("getRoutes", "none", getRoutes)
  /\ UNCHANGED <<variant, now, driverStorage, vehicleStorage, bookingStorage, fuelConsumptionStorage, maintenanceStorage, emergencyAssistanceStorage, routeStorage, issued, deleted>>

GetRouteById ==
  /\ Idle
  /\ variant = 2
  /\ \E routeId \in IdInputs :
       /\ last' = Call("getRouteById", routeId, getRouteById(routeId))
       /\ UNCHANGED <<variant, now, driverStorage, vehicleStorage, bookingStorage, fuelConsumptionStorage, maintenanceStorage, emergencyAssistanceStorage, routeStorage, issued, deleted>>

\* the caller reads the reply; the canister takes the next message after that
Return ==
  /\ ~Idle
  /\ last' = NoCall
  /\ UNCHANGED <<variant, now, driverStorage, vehicleStorage, bookingStorage, fuelConsumptionStorage, maintenanceStorage, emergencyAssistanceStorage, routeStorage, issued, deleted>>

Next ==
  \/ Tick
  \/ Return
  \/ CreateDriver
  \/ GetDrivers
  \/ GetDriverById
  \/ GetDriverById2
  \/ GetDriverByPrincipal
  \/ DeleteDriver
  \/ GetDriverByLicenseNumber
  \/ CreateVehicle
  \/ CreateVehicle2
  \/ GetVehicleById
  \/ GetVehicleById2
  \/ GetVehicleByRegistrationNumber
  \/ GetVehicleByModel
  \/ GetVehicles
  \/ DeleteVehicle
  \/ UpdateVehicleStatus
  \/ CreateBooking
  \/ CreateBooking2
  \/ GetBookings
  \/ GetBookingById
  \/ GetBookingByVehicleId
  \/ GetBookingByDriverId
  \/ RecordFuelConsumption
  \/ RecordFuelConsumption2
  \/ GetFuelConsumptions
  \/ ScheduleMaintenance
  \/ ScheduleMaintenance2
  \/ GetMaintenances
  \/ RequestEmergencyAssistance
  \/ RequestEmergencyAssistance2
  \/ GetEmergencyAssistances
  \/ CreateRoute
  \/ GetRoutes
  \/ GetRouteById

Spec == Init /\ [][Next]_vars

\* ------------------------------------------------------------- properties
\* the step is a call of op: its argument is last'.arg, its reply last'.res
Calls(op) == Idle /\ last'.op = op
CallStep == Idle /\ last'.op # "none"
Returned(op) == last.op = op
Booked == VariantOf("Booked")
Maintenance == VariantOf("Maintenance")
Available == VariantOf("Available")
HasStatus(vehicleId, S) ==
  vehicleId \in DOMAIN vehicleStorage /\ vehicleStorage[vehicleId].status \in S
FutureBooking(payload) ==
  Truthy(payload.from_location) /\ Truthy(payload.to_location) /\ payload.start_time > now
Elems(seq) == { seq[i] : i \in 1..Len(seq) }

\* C1 as stated: createBooking naming a stored vehicle whose status is Booked
\* or Maintenance returns Error for every payload and changes neither the
\* booking store nor the vehicle store.
C1Original ==
  [][ (Calls("createBooking") /\ HasStatus(last'.arg.vehicle_id, {Booked, Maintenance}))
      => /\ IsErr(last'.res, "Error")
         /\ bookingStorage' = bookingStorage
         /\ vehicleStorage' = vehicleStorage ]_vars

\* C1 amended: createBooking naming a stored vehicle whose status is Booked or
\* Maintenance returns Error when from/to are non-empty and start_time is after
\* the current time, and InvalidPayload otherwise; in both cases the booking
\* store and the vehicle store stay as they were.
C1Theorem ==
  [][ (Calls("createBooking") /\ HasStatus(last'.arg.vehicle_id, {Booked, Maintenance}))
      => /\ IF FutureBooking(last'.arg) THEN IsErr(last'.res, "Error")
                                        ELSE IsErr(last'.res, "InvalidPayload")
         /\ bookingStorage' = bookingStorage
         /\ vehicleStorage' = vehicleStorage ]_vars

C1Witness ==
  /\ Returned("createBooking")
  /\ HasStatus(last.arg.vehicle_id, {Booked})
  /\ last.arg.driver_id \in DOMAIN driverStorage
  /\ FutureBooking(last.arg)
  /\ IsErr(last.res, "Error")

\* C2: with vehicle V stored and Available, driver D stored, non-empty from/to
\* and start_time after the current time, createBooking returns a Booking with
\* status "pending" and inserts it; getBookingByVehicleId(V.id) then returns a
\* sequence holding that booking, and only it when V had no booking before.
C2Claim ==
  [][ (/\ Calls("createBooking")
       /\ HasStatus(last'.arg.vehicle_id, {Available})
       /\ last'.arg.driver_id \in DOMAIN driverStorage
       /\ FutureBooking(last'.arg))
      => /\ last'.res.tag = "Ok"
         /\ last'.res.val.status = "pending"
         /\ last'.res.val.id \in DOMAIN bookingStorage'
         /\ bookingStorage'[last'.res.val.id] = last'.res.val
         /\ \A v \in DOMAIN vehicleStorage :
              v = last'.arg.vehicle_id
              => LET found == getBookingByVehicleId(v)'
                 IN /\ found.tag = "Ok"
                    /\ last'.res.val \in Elems(found.val)
                    /\ IsErr(getBookingByVehicleId(v), "NotFound")
                         => found.val = <<last'.res.val>> ]_vars

\* C3: recordFuelConsumption returns InvalidPayload and stores nothing when the
\* amount is "0" or does not parse to a number; when the amount parses to a
\* positive number and the vehicle is stored it stores and returns a record
\* whose amount is the input string.
C3Claim ==
  [][ Calls("recordFuelConsumption")
      => LET x == parseFloat(last'.arg.amount)
         IN /\ (last'.arg.amount = <<"0">> \/ x.nan)
                 => /\ IsErr(last'.res, "InvalidPayload")
                    /\ fuelConsumptionStorage' = fuelConsumptionStorage
            /\ (~x.nan /\ ~LeqZero(x) /\ last'.arg.vehicle_id \in DOMAIN vehicleStorage)
                 => /\ last'.res.tag = "Ok"
                    /\ last'.res.val.amount = last'.arg.amount
                    /\ last'.res.val.id \in DOMAIN fuelConsumptionStorage'
                    /\ fuelConsumptionStorage'[last'.res.val.id] = last'.res.val ]_vars

\* C4: createBooking with start_time at or before the current time returns
\* InvalidPayload and stores no booking, whatever the other fields and the
\* stores hold.
C4Theorem ==
  [][ (Calls("createBooking") /\ last'.arg.start_time <= now)
      => /\ IsErr(last'.res, "InvalidPayload")
         /\ bookingStorage' = bookingStorage ]_vars

C4Witness ==
  /\ Returned("createBooking")
  /\ last.arg.start_time = now
  /\ Truthy(last.arg.from_location) /\ Truthy(last.arg.to_location)
  /\ HasStatus(last.arg.vehicle_id, {Available})
  /\ last.arg.driver_id \in DOMAIN driverStorage
  /\ IsErr(last.res, "InvalidPayload")

\* ids createDriver has returned so far, and those a deleteDriver call removed
DriverIds == { i \in DOMAIN issued : issued[i].store = "driver" }
DeletedDrivers == deleted \cap DriverIds
AllBlank(str) == \A i \in 1..Len(str) : str[i] = " "     \* empty or white space only

\* C5: once createDriver has returned record r with id i, every getDriverById(i)
\* returns r, whatever calls were made in between, until deleteDriver(i)
\* succeeds.
C5Theorem ==
  [][ (Calls("getDriverById") /\ last'.arg \in DriverIds \ deleted)
      => last'.res = Ok(issued[last'.arg].rec) ]_vars

C5Witness ==
  /\ Returned("getDriverById")
  /\ last.arg \in DriverIds \ deleted
  /\ last.res = Ok(issued[last.arg].rec)
  /\ DeletedDrivers # {}
  /\ \E v \in DOMAIN vehicleStorage : HasStatus(v, {Booked, Maintenance})

\* C6 as stated: getDriverById with an id no createDriver call has returned,
\* the empty and the white-space-only strings included, returns NotFound.
C6Original ==
  [][ (Calls("getDriverById") /\ last'.arg \notin DriverIds)
      => IsErr(last'.res, "NotFound") ]_vars

\* C6 amended: getDriverById with an id no createDriver call has returned
\* returns NotFound, except that the first canister declaration returns
\* InvalidPayload when the id is empty or white space only.
C6Theorem ==
  [][ (Calls("getDriverById") /\ last'.arg \notin DriverIds)
      => IF variant = 1 /\ AllBlank(last'.arg) THEN IsErr(last'.res, "InvalidPayload")
                                                ELSE IsErr(last'.res, "NotFound") ]_vars

C6Witness ==
  /\ Returned("getDriverById")
  /\ variant = 1
  /\ last.arg = Blank2
  /\ driverStorage # EmptyMap
  /\ IsErr(last.res, "InvalidPayload")

\* C7: after deleteDriver(i) has returned Success, every getDriverById(i)
\* returns NotFound, the id never comes back into the driver store, and a
\* further deleteDriver(i) returns NotFound and changes no store.
C7Theorem ==
  [][ /\ (Calls("getDriverById") /\ last'.arg \in DeletedDrivers)
           => IsErr(last'.res, "NotFound")
      /\ (Calls("deleteDriver") /\ last'.arg \in DeletedDrivers)
           => (IsErr(last'.res, "NotFound") /\ stores' = stores)
      /\ \A i \in DeletedDrivers : i \notin DOMAIN driverStorage' ]_vars

C7Witness ==
  /\ Returned("deleteDriver")
  /\ last.arg \in DeletedDrivers
  /\ IsErr(last.res, "NotFound")
  /\ driverStorage # EmptyMap

\* C8: the status of a stored vehicle changes only in a successful
\* updateVehicleStatus call on that vehicle, which sets it to the status
\* passed; getVehicleById then reports that status; and updateVehicleStatus on
\* a stored vehicle succeeds whatever the old and the new status are.
C8Theorem ==
  [][ /\ \A v \in DOMAIN vehicleStorage \cap DOMAIN vehicleStorage' :
           vehicleStorage'[v].status # vehicleStorage[v].status
           => /\ Calls("updateVehicleStatus")
              /\ last'.res = Ok(Success)
              /\ last'.arg.id = v
              /\ vehicleStorage'[v].status = last'.arg.status
      /\ Calls("updateVehicleStatus")
           => /\ last'.arg.id \in DOMAIN vehicleStorage <=> last'.res = Ok(Success)
              /\ \A v \in DOMAIN vehicleStorage :
                   v = last'.arg.id
                   => /\ getVehicleById(v)'.tag = "Ok"
                      /\ getVehicleById(v)'.val.status = last'.arg.status
                      /\ getVehicleById(v)'.val.id = v ]_vars

C8Witness ==
  /\ Returned("scheduleMaintenance")
  /\ last.res.tag = "Ok"
  /\ HasStatus(last.arg.vehicle_id, {Booked})
  /\ issued[last.arg.vehicle_id].rec.status = Available

\* the store each listing call reads
Listing == [getDrivers |-> driverStorage, getVehicles |-> vehicleStorage,
            getBookings |-> bookingStorage, getFuelConsumptions |-> fuelConsumptionStorage,
            getMaintenances |-> maintenanceStorage,
            getEmergencyAssistances |-> emergencyAssistanceStorage, getRoutes |-> routeStorage]
\* C9: each listing call returns NotFound exactly when its store is empty,
\* also after every record was deleted, and otherwise all the records of the
\* store, each once; it never returns an empty sequence.
C9Theorem ==
  [][ \A op \in DOMAIN Listing :
        Calls(op)
        => IF DOMAIN Listing[op] = {}
           THEN IsErr(last'.res, "NotFound")
           ELSE /\ last'.res.tag = "Ok"
                /\ Len(last'.res.val) = Cardinality(DOMAIN Listing[op])
                /\ Elems(last'.res.val) = { Listing[op][k] : k \in DOMAIN Listing[op] } ]_vars

C9Witness ==
  /\ Returned("getDrivers")
  /\ IsErr(last.res, "NotFound")
  /\ DeletedDrivers # {}

\* the keys at which the step changes a store, as <<store number, key>>
Changed ==
  { x \in UNION { {<<n, k>> : k \in DOMAIN stores[n] \cup DOMAIN stores'[n]} : n \in 1..7 } :
      \/ x[2] \notin DOMAIN stores[x[1]]
      \/ x[2] \notin DOMAIN stores'[x[1]]
      \/ stores[x[1]][x[2]] # stores'[x[1]][x[2]] }
Updates == {"createDriver", "createVehicle", "createBooking", "recordFuelConsumption",
            "scheduleMaintenance", "requestEmergencyAssistance", "createRoute",
            "deleteDriver", "deleteVehicle", "updateVehicleStatus"}

\* C10 as stated: a call that returns InvalidPayload, NotFound or Error leaves
\* the seven stores as they were; only a call that returns a created record or
\* Success changes a store, and each such call changes exactly one store at
\* exactly one key.
C10Original ==
  [][ /\ (CallStep /\ last'.res.tag = "Err") => stores' = stores
      /\ stores' # stores => (CallStep /\ last'.op \in Updates /\ last'.res.tag = "Ok")
      /\ (CallStep /\ last'.op \in Updates /\ last'.res.tag = "Ok") => Cardinality(Changed) = 1 ]_vars

\* the call is updateVehicleStatus with the status the vehicle already has
SameStatus ==
  /\ last'.op = "updateVehicleStatus"
  /\ vehicleStorage[last'.arg.id].status = last'.arg.status
\* C10 amended: as stated, except that updateVehicleStatus passing the status
\* the vehicle already has returns Success and changes nothing.
C10Theorem ==
  [][ /\ (CallStep /\ last'.res.tag = "Err") => stores' = stores
      /\ stores' # stores => (CallStep /\ last'.op \in Updates /\ last'.res.tag = "Ok")
      /\ (CallStep /\ last'.op \in Updates /\ last'.res.tag = "Ok")
           => Cardinality(Changed) = IF SameStatus THEN 0 ELSE 1 ]_vars

C10Witness ==
  /\ Returned("updateVehicleStatus")
  /\ last.res = Ok(Success)
  /\ last.arg.status = Booked
  /\ bookingStorage # EmptyMap

\* the five stores that hold neither drivers nor vehicles
dependents == <<bookingStorage, fuelConsumptionStorage, maintenanceStorage,
                emergencyAssistanceStorage, routeStorage>>
DeletedVehicles == { i \in deleted : issued[i].store = "vehicle" }
BookingsOf(vehicleId) == { k \in DOMAIN bookingStorage : bookingStorage[k].vehicle_id = vehicleId }

\* C11: a successful deleteVehicle or deleteDriver removes exactly the record
\* under the id passed and leaves the other store of the two and the booking,
\* fuel, maintenance, emergency and route stores as they were, so the bookings
\* naming the deleted id stay stored; getBookingByVehicleId with the id of a
\* deleted vehicle returns every stored booking that names it.
C11Theorem ==
  [][ /\ (Calls("deleteVehicle") /\ last'.res = Ok(Success))
           => /\ last'.arg \in DOMAIN vehicleStorage
              /\ DOMAIN vehicleStorage' = DOMAIN vehicleStorage \ {last'.arg}
              /\ \A k \in DOMAIN vehicleStorage' : vehicleStorage'[k] = vehicleStorage[k]
              /\ driverStorage' = driverStorage
              /\ dependents' = dependents
      /\ (Calls("deleteDriver") /\ last'.res = Ok(Success))
           => /\ last'.arg \in DOMAIN driverStorage
              /\ DOMAIN driverStorage' = DOMAIN driverStorage \ {last'.arg}
              /\ \A k \in DOMAIN driverStorage' : driverStorage'[k] = driverStorage[k]
              /\ vehicleStorage' = vehicleStorage
              /\ dependents' = dependents
      /\ (Calls("getBookingByVehicleId") /\ last'.arg \in DeletedVehicles)
           => IF BookingsOf(last'.arg) = {} THEN IsErr(last'.res, "NotFound")
              ELSE /\ last'.res.tag = "Ok"
                   /\ Len(last'.res.val) = Cardinality(BookingsOf(last'.arg))
                   /\ Elems(last'.res.val) = { bookingStorage[k] : k \in BookingsOf(last'.arg) } ]_vars

C11Witness ==
  /\ Returned("getBookingByVehicleId")
  /\ last.arg \in DeletedVehicles
  /\ BookingsOf(last.arg) # {}
  /\ last.res.tag = "Ok"
  /\ \E k \in BookingsOf(last.arg) : bookingStorage[k].driver_id \in DeletedDrivers

\* the store each get-by-id call reads
ById == [getDriverById |-> driverStorage, getVehicleById |-> vehicleStorage,
         getBookingById |-> bookingStorage, getRouteById |-> routeStorage]

\* C12: getDriverById, getVehicleById, getBookingById and getRouteById return
\* InvalidPayload when the id is empty or white space only, NotFound when the
\* id is well-formed and no key of the store, and the stored record otherwise.
C12Claim ==
  [][ \A op \in DOMAIN ById :
        Calls(op)
        => IF AllBlank(last'.arg) THEN IsErr(last'.res, "InvalidPayload")
           ELSE IF last'.arg \notin DOMAIN ById[op] THEN IsErr(last'.res, "NotFound")
           ELSE last'.res = Ok(ById[op][last'.arg]) ]_vars

Creates == {"createDriver", "createVehicle", "createBooking", "recordFuelConsumption",
            "scheduleMaintenance", "requestEmergencyAssistance", "createRoute"}
Created == CallStep /\ last'.op \in Creates /\ last'.res.tag = "Ok"

\* C13: every store maps a key only to a record whose id is that key; the id
\* a successful create returns was returned by no earlier create, deleted
\* records included; updateVehicleStatus keeps every vehicle under its key
\* with its id; createDriver returns points = 0.
C13Theorem ==
  [][ /\ \A n \in 1..7 : \A k \in DOMAIN stores'[n] : stores'[n][k].id = k
      /\ Created => /\ last'.res.val.id \notin DOMAIN issued
                    /\ last'.res.val.id \in DOMAIN issued'
                    /\ issued'[last'.res.val.id].rec = last'.res.val
                    /\ \A i \in DOMAIN issued : issued'[i] = issued[i]
      /\ Calls("updateVehicleStatus")
           => /\ DOMAIN vehicleStorage' = DOMAIN vehicleStorage
              /\ \A k \in DOMAIN vehicleStorage : vehicleStorage'[k].id = vehicleStorage[k].id
      /\ (Calls("createDriver") /\ last'.res.tag = "Ok")
           => /\ last'.res.val.points = 0
              /\ last'.res.val.owner = last'.arg.caller
              /\ driverStorage'[last'.res.val.id] = last'.res.val ]_vars

C13Witness ==
  /\ Returned("createDriver")
  /\ last.res.tag = "Ok"
  /\ last.res.val.points = 0
  /\ DeletedDrivers # {}
  /\ last.res.val.id \notin deleted
  /\ \E v \in DOMAIN vehicleStorage : HasStatus(v, {Booked, Maintenance})

EmptyLocation(payload) == ~Truthy(payload.from_location) \/ ~Truthy(payload.to_location)

\* C14 as stated: createBooking with valid fields and a future start_time, a
\* stored vehicle that is not Available and a driver_id that names no stored
\* driver returns NotFound; with an empty from or to location it returns
\* InvalidPayload whatever the stores hold.
C14Original ==
  [][ Calls("createBooking")
      => /\ (/\ FutureBooking(last'.arg)
             /\ HasStatus(last'.arg.vehicle_id, {Booked, Maintenance})
             /\ last'.arg.driver_id \notin DOMAIN driverStorage)
            => IsErr(last'.res, "NotFound")
         /\ EmptyLocation(last'.arg) => IsErr(last'.res, "InvalidPayload") ]_vars

\* C14 amended: createBooking tests the fields, then that the vehicle is
\* stored, then that it is Available, and only then that the driver is
\* stored: with valid fields and a future start_time, a stored vehicle that is
\* not Available and a driver_id that names no stored driver returns Error,
\* and a vehicle_id that names no stored vehicle returns NotFound whether or
\* not the driver is stored; with an empty from or to location it returns
\* InvalidPayload whatever the stores hold.
C14Theorem ==
  [][ Calls("createBooking")
      => /\ (/\ FutureBooking(last'.arg)
             /\ HasStatus(last'.arg.vehicle_id, {Booked, Maintenance})
             /\ last'.arg.driver_id \notin DOMAIN driverStorage)
            => IsErr(last'.res, "Error")
         /\ (FutureBooking(last'.arg) /\ last'.arg.vehicle_id \notin DOMAIN vehicleStorage)
            => IsErr(last'.res, "NotFound")
         /\ EmptyLocation(last'.arg) => IsErr(last'.res, "InvalidPayload")
         /\ last'.res.tag = "Err" => bookingStorage' = bookingStorage ]_vars

C14Witness ==
  /\ Returned("createBooking")
  /\ FutureBooking(last.arg)
  /\ HasStatus(last.arg.vehicle_id, {Maintenance})
  /\ last.arg.driver_id \in DeletedDrivers
  /\ IsErr(last.res, "Error")

\* keys of the stored drivers created by the caller
OwnedBy(caller) == { k \in DOMAIN driverStorage : driverStorage[k].owner = caller }

\* C15: getDriverByPrincipal called by P returns NotFound exactly when no
\* stored driver has owner P, and otherwise the stored driver with owner P
\* that comes first in ascending id order; it never returns a driver with
\* another owner.
C15Claim ==
  [][ Calls("getDriverByPrincipal")
      => IF OwnedBy(last'.arg) = {} THEN IsErr(last'.res, "NotFound")
         ELSE last'.res = Ok(driverStorage[First(OwnedBy(last'.arg))]) ]_vars

\* numbers in stores of the booking, fuel, maintenance, emergency and route
\* stores, and of those whose records carry a status text
WriteOnce == 3..7
WithStatus == {3, 5, 6}

\* C16: a Booking, FuelConsumption, Maintenance, EmergencyAssistance or Route
\* record, once stored, is never removed and never changed: each step keeps
\* every record of these five stores as it was, every stored record is the
\* one its create call returned, and every stored Booking, Maintenance and
\* EmergencyAssistance has status "pending".
C16Theorem ==
  [][ /\ \A n \in WriteOnce : \A k \in DOMAIN stores[n] :
             k \in DOMAIN stores'[n] /\ stores'[n][k] = stores[n][k]
      /\ \A n \in WriteOnce : \A k \in DOMAIN stores'[n] :
             k \in DOMAIN issued' /\ stores'[n][k] = issued'[k].rec
      /\ \A n \in WithStatus : \A k \in DOMAIN stores'[n] : stores'[n][k].status = "pending" ]_vars

C16Witness ==
  /\ Returned("deleteVehicle")
  /\ last.res = Ok(Success)
  /\ \E k \in DOMAIN bookingStorage :
        /\ bookingStorage[k].vehicle_id = last.arg
        /\ bookingStorage[k].start_time <= now
        /\ bookingStorage[k].status = "pending"
        /\ bookingStorage[k] = issued[k].rec

====
